---- MODULE Spec2Model ----
(***************************************************************************)
(* Model of the marksheet extraction pipeline of src/marksheet_agent.py:   *)
(* response parsing (parse_extraction_result), tabular flattening          *)
(* (create_csv_data), the CSV sink (save_to_csv) and the pipeline driver   *)
(* (process_marksheet), run once, twice in parallel, and from the session  *)
(* of src/app.py; and of the helpers of src/utils.py: clean_column_name,   *)
(* validate_marks, clean_numeric_value and get_unique_filename.            *)
(*                                                                         *)
(* Texts are sequences of lexemes.  Every lexeme stands for a fixed piece  *)
(* of text, so a lexeme sequence is one concrete string:                   *)
(*   "OPEN"  = ```json<newline>        "CLOSE" = <newline>```              *)
(*   "TK"    = ```                                                         *)
(*   "FJ"    = ```json (an OPEN without its newline; only in candidates)   *)
(*   "W"     = a prose word (no brace, no backtick, no newline)            *)
(*   "LB"    = {      "RB" = }      "LST" = []                             *)
(*   "OBJ_FULL" = {"rrn":"R123","sectionwise_marks":[{"subject":"Math",    *)
(*                 "marks_obtained":"40","max_marks":"50"}],               *)
(*                 "total_marks":"40"}                                     *)
(*   "OBJ_PART" = {"student_name":"Asha","total_marks":"40"}               *)
(***************************************************************************)
EXTENDS Integers, Sequences, FiniteSets, TLC

VARIABLES ptext, pres, frec, frow, files, now, inv, procs, ss, ucall, uq

vars == <<ptext, pres, frec, frow, files, now, inv, procs, ss, ucall, uq>>

\* The state of the parallel invocations and of the UI session.
appVars == <<procs, ss>>

\* The state of the calls of the helpers of utils.py.
utilVars == <<ucall, uq>>

(***************************************************************************)
(* Bounds of the model.                                                    *)
(***************************************************************************)
MaxLen == 4

MaxSections == 2

MaxTime == 1

MaxChars == 4

MaxFiles == 3

(***************************************************************************)
(* Generic helpers.                                                        *)
(***************************************************************************)
SeqsUpTo(S, n) == UNION {[1..k -> S] : k \in 0..n}

Slice(s, a, b) == [k \in 1..(b - a + 1) |-> s[a + k - 1]]

Min(S) == CHOOSE x \in S : \A y \in S : x <= y

Max(S) == CHOOSE x \in S : \A y \in S : x >= y

(***************************************************************************)
(* Raw model responses.                                                    *)
(***************************************************************************)
Lexemes == {"OPEN", "CLOSE", "TK", "W", "LB", "RB", "LST", "OBJ_FULL", "OBJ_PART"}

Texts == SeqsUpTo(Lexemes, MaxLen)

NA == "Not Available"

\* JSON values of the key sectionwise_marks: a list of entries or a string.
Lst(xs) == [t |-> "list", s |-> "", items |-> xs]

Str(x) == [t |-> "str", s |-> x, items |-> <<>>]

EntryKeys == {"subject", "marks_obtained", "max_marks"}

\* One element of sectionwise_marks.  kind "dict" is a JSON object holding
\* the keys in `keys`; subjStr says whether its subject is a string (a
\* subject that is a number is not); kind "other" is any non-object element.
Entry(keys, subject, subjStr, marks, max) ==
    [kind |-> "dict", keys |-> keys, subject |-> subject, subjStr |-> subjStr,
     marks_obtained |-> marks, max_marks |-> max]

NonDictEntry ==
    [kind |-> "other", keys |-> {}, subject |-> <<>>, subjStr |-> FALSE,
     marks_obtained |-> "", max_marks |-> ""]

Get(d, k, default) == IF k \in DOMAIN d THEN d[k] ELSE default

EmptyDict == [k \in {} |-> ""]

\* dict[k] = v on a dict modelled as a function.
DictPut(d, k, v) == [x \in DOMAIN d \cup {k} |-> IF x = k THEN v ELSE d[x]]

(***************************************************************************)
(* re.search(r'```json\n(.*?)\n```', text, re.DOTALL)                      *)
(* The opening "```json\n" occurs exactly at the OPEN lexemes.  The        *)
(* closing "\n```" occurs at a CLOSE lexeme, and across an OPEN and a      *)
(* following OPEN or TK (the newline ending the first, the backticks       *)
(* starting the second); the group then ends with the first OPEN less its  *)
(* newline, FJ.  The newline of the opening itself is consumed by the      *)
(* opening, so OPEN TK (```json, newline, ```) has no closing.             *)
(***************************************************************************)
OpenAt(text, i) == i \in 1..Len(text) /\ text[i] = "OPEN"

ClosingAt(text, j) ==
    /\ j \in 1..Len(text)
    /\ \/ text[j] = "CLOSE"
       \/ text[j] = "OPEN" /\ j < Len(text) /\ text[j + 1] \in {"OPEN", "TK"}

\* The start positions at which the fence pattern matches.
FenceStarts(text) ==
    {i \in 1..Len(text) :
        OpenAt(text, i) /\ \E j \in (i + 1)..Len(text) : ClosingAt(text, j)}

\* group(1) of the leftmost match, taken lazily: up to the nearest closing.
FenceGroup(text) ==
    LET i == Min(FenceStarts(text))
        j == Min({x \in (i + 1)..Len(text) : ClosingAt(text, x)})
        inner == Slice(text, i + 1, j - 1)
    IN IF text[j] = "CLOSE" THEN inner ELSE Append(inner, "FJ")

(***************************************************************************)
(* re.search(r'\{.*\}', text, re.DOTALL): greedy, from the first '{' to    *)
(* the last '}' provided the '{' comes first.  A '{' is the first          *)
(* character of LB and of the OBJ lexemes, a '}' the last character of RB  *)
(* and of the OBJ lexemes.                                                 *)
(***************************************************************************)
HasLB(x) == x \in {"LB", "OBJ_FULL", "OBJ_PART"}

HasRB(x) == x \in {"RB", "OBJ_FULL", "OBJ_PART"}

BraceMatches(text) ==
    /\ \E i \in 1..Len(text) : HasLB(text[i])
    /\ \E j \in 1..Len(text) : HasRB(text[j])
    /\ Min({i \in 1..Len(text) : HasLB(text[i])})
          <= Max({j \in 1..Len(text) : HasRB(text[j])})

BraceGroup(text) ==
    Slice(text, Min({i \in 1..Len(text) : HasLB(text[i])}),
                Max({j \in 1..Len(text) : HasRB(text[j])}))

\* JsonCandidate with the two searches in the other order.
JsonCandidateBraceFirst(text) ==
    IF BraceMatches(text)
    THEN [found |-> TRUE, via |-> "brace", str |-> BraceGroup(text)]
    ELSE IF FenceStarts(text) # {}
         THEN [found |-> TRUE, via |-> "fence", str |-> FenceGroup(text)]
         ELSE [found |-> FALSE, via |-> "none", str |-> <<>>]

\* Lines 147-156: the text handed to json.loads, or none (ValueError).
JsonCandidate(text) ==
    IF FenceStarts(text) # {}
    THEN [found |-> TRUE, via |-> "fence", str |-> FenceGroup(text)]
    ELSE IF BraceMatches(text)
         THEN [found |-> TRUE, via |-> "brace", str |-> BraceGroup(text)]
         ELSE [found |-> FALSE, via |-> "none", str |-> <<>>]

(***************************************************************************)
(* json.loads on a lexeme sequence.  No lexeme is pure white space and no  *)
(* separator lexeme exists, so the valid documents are exactly: one value  *)
(* lexeme, or LB RB (the empty object).                                    *)
(***************************************************************************)
MathEntry == Entry(EntryKeys, <<"Math">>, TRUE, "40", "50")

ObjFull ==
    [k \in {"rrn", "sectionwise_marks", "total_marks"} |->
        IF k = "rrn" THEN "R123"
        ELSE IF k = "total_marks" THEN "40"
        ELSE Lst(<<MathEntry>>)]

ObjPart ==
    [k \in {"student_name", "total_marks"} |->
        IF k = "student_name" THEN "Asha" ELSE "40"]

json_loads(str) ==
    IF str = <<"OBJ_FULL">> THEN [ok |-> TRUE, kind |-> "object", obj |-> ObjFull]
    ELSE IF str = <<"OBJ_PART">> THEN [ok |-> TRUE, kind |-> "object", obj |-> ObjPart]
    ELSE IF str = <<"LB", "RB">> THEN [ok |-> TRUE, kind |-> "object", obj |-> EmptyDict]
    ELSE IF str = <<"LST">> THEN [ok |-> TRUE, kind |-> "list", obj |-> EmptyDict]
    ELSE [ok |-> FALSE, kind |-> "error", obj |-> EmptyDict]

RequiredFields == <<"rrn", "sectionwise_marks", "total_marks">>

\* Lines 162-165: every missing required field is set to "Not Available".
RECURSIVE FillRequired(_, _)
FillRequired(d, n) ==
    IF n > Len(RequiredFields) THEN d
    ELSE LET field == RequiredFields[n]
             v == IF field = "sectionwise_marks" THEN Str(NA) ELSE NA
         IN FillRequired(IF field \in DOMAIN d THEN d ELSE DictPut(d, field, v), n + 1)

\* Lines 171-178: the record built when json.loads raises JSONDecodeError.
ErrorRecord(text) ==
    [k \in {"rrn", "student_name", "sectionwise_marks", "total_marks",
            "error", "raw_response"} |->
        CASE k = "rrn" -> "Extraction Failed"
          [] k = "student_name" -> NA
          [] k = "sectionwise_marks" -> Lst(<<>>)
          [] k = "total_marks" -> NA
          [] k = "error" -> <<"Failed to parse response: ", "JSONDecodeError">>
          [] OTHER -> text]

\* The outcome of a call: a returned value or an exception leaving it.
\* `loaded` records the text that was handed to json.loads, if any.
Returned(v, c) == [raised |-> FALSE, exc |-> "", val |-> v, loaded |-> c]

Raised(e, c) == [raised |-> TRUE, exc |-> e, val |-> EmptyDict, loaded |-> c]

\* Lines 143-178.  Only json.JSONDecodeError is caught: the ValueError of
\* line 156 and the TypeError of line 165 (item assignment on a list)
\* leave the function.
parse_extraction_result(text) ==
    LET c == JsonCandidate(text)
        p == json_loads(c.str)
    IN IF ~c.found THEN Raised("ValueError", c)
       ELSE IF ~p.ok THEN Returned(ErrorRecord(text), c)
       ELSE IF p.kind # "object" THEN Raised("TypeError", c)
       ELSE Returned(FillRequired(p.obj, 1), c)

(***************************************************************************)
(* Column names are sequences of name lexemes: words, "_", " " and "TAB"   *)
(* (white space), "!", "(" and ")" (punctuation characters), and decimal   *)
(* digits.  No word is a prefix of another, so equal names are equal       *)
(* sequences.                                                              *)
(***************************************************************************)
Digits == <<"1", "2", "3", "4", "5", "6", "7", "8", "9">>

Punct == {"!", "(", ")"}

\* The characters \s matches.
Whitespace == {" ", "TAB"}

\* re.sub(r'[^\w\s]', '', subject_name).replace(' ', '_')  (line 207)
RECURSIVE CleanSubject(_)
CleanSubject(name) ==
    IF name = <<>> THEN <<>>
    ELSE LET c == Head(name)
             rest == CleanSubject(Tail(name))
         IN IF c \in Punct THEN rest
            ELSE IF c = " " THEN <<"_">> \o rest
            ELSE <<c>> \o rest

BaseKeys ==
    <<"rrn", "student_name", "class", "school", "academic_year",
      "total_marks", "total_max_marks", "percentage", "grade">>

\* The column of each base key, in the order of lines 185-193.
BaseColumns ==
    << <<"RRN">>, <<"Student", "_", "Name">>, <<"Class">>, <<"School">>,
       <<"Academic", "_", "Year">>, <<"Total", "_", "Marks">>,
       <<"Total", "_", "Max", "_", "Marks">>, <<"Percentage">>, <<"Grade">> >>

Cell(name, val) == [name |-> name, val |-> val]

\* main_data[name] = val on an insertion-ordered dict: an existing key
\* keeps its place and takes the new value, a new key goes last.
RowPut(row, name, val) ==
    IF \E i \in 1..Len(row) : row[i].name = name
    THEN [i \in 1..Len(row) |-> IF row[i].name = name THEN Cell(name, val) ELSE row[i]]
    ELSE Append(row, Cell(name, val))

\* Lines 184-194.
MainData(extracted_data) ==
    [i \in 1..Len(BaseKeys) |-> Cell(BaseColumns[i], Get(extracted_data, BaseKeys[i], NA))]

\* Lines 202-204: dict.get with its default.
EntryGet(e, k, default) == IF k \in e.keys THEN e[k] ELSE default

\* Lines 200-210, from the entry at 1-based position n on.  The result is
\* the row, or the exception re.sub raises on a subject that is no string.
RECURSIVE AddSections(_, _, _)
AddSections(row, items, n) ==
    IF n > Len(items) THEN [raised |-> FALSE, row |-> row]
    ELSE LET e == items[n]
         IN IF e.kind # "dict" THEN AddSections(row, items, n + 1)
            ELSE IF "subject" \in e.keys /\ ~e.subjStr
                 THEN [raised |-> TRUE, row |-> row]
            ELSE LET subject_name == EntryGet(e, "subject", <<"Subject", "_", Digits[n]>>)
                     clean_subject_name == CleanSubject(subject_name)
                     r1 == RowPut(row, clean_subject_name \o <<"_", "Marks">>,
                                  EntryGet(e, "marks_obtained", "N/A"))
                     r2 == RowPut(r1, clean_subject_name \o <<"_", "Max">>,
                                  EntryGet(e, "max_marks", "N/A"))
                 IN AddSections(r2, items, n + 1)

\* A value handed to create_csv_data that is no dict (a list, a string,
\* None): a record naming its Python type.
NonMapping(type) == [python_type |-> type]

IsMapping(x) == "python_type" \notin DOMAIN x

\* str(e) of the AttributeError of line 185 (extracted_data.get) and of the
\* TypeError of line 207 (re.sub on a subject that is no string).
NoGetMessage(x) ==
    CASE x.python_type = "list" -> "'list' object has no attribute 'get'"
      [] x.python_type = "str" -> "'str' object has no attribute 'get'"
      [] OTHER -> "'NoneType' object has no attribute 'get'"

NoStringMessage == "expected string or bytes-like object"

\* Lines 218-222.
ErrorRow(extracted_data, message) ==
    << Cell(<<"RRN">>, "Error"),
       Cell(<<"Error", "_", "Message">>, message),
       Cell(<<"Raw", "_", "Data">>, [repr |-> extracted_data]) >>

\* create_csv_data without the handler of lines 216-223: the row as far as
\* it was built when a step failed.
create_csv_data_partial(extracted_data) ==
    IF ~IsMapping(extracted_data) THEN <<>>
    ELSE LET sectionwise_marks == Get(extracted_data, "sectionwise_marks", Lst(<<>>))
             main_data == MainData(extracted_data)
         IN IF sectionwise_marks.t = "list" /\ sectionwise_marks.items # <<>>
            THEN AddSections(main_data, sectionwise_marks.items, 1).row
            ELSE main_data

\* Lines 180-223: the single row of the returned DataFrame, columns in order.
create_csv_data(extracted_data) ==
    IF ~IsMapping(extracted_data)
    THEN ErrorRow(extracted_data, NoGetMessage(extracted_data))
    ELSE LET sectionwise_marks == Get(extracted_data, "sectionwise_marks", Lst(<<>>))
             main_data == MainData(extracted_data)
             r == IF sectionwise_marks.t = "list" /\ sectionwise_marks.items # <<>>
                  THEN AddSections(main_data, sectionwise_marks.items, 1)
                  ELSE [raised |-> FALSE, row |-> main_data]
         IN IF r.raised THEN ErrorRow(extracted_data, NoStringMessage) ELSE r.row

(***************************************************************************)
(* CSVFormatter.clean_column_name (utils.py lines 86-98).                  *)
(***************************************************************************)
\* Line 90: re.sub(r'[^\w\s]', '', ...).  \w holds letters, digits and the
\* underscore.
RECURSIVE RemoveSpecial(_)
RemoveSpecial(name) ==
    IF name = <<>> THEN <<>>
    ELSE IF Head(name) \in Punct THEN RemoveSpecial(Tail(name))
    ELSE <<Head(name)>> \o RemoveSpecial(Tail(name))

\* re.sub of one or more characters of `class` by one underscore (lines 92
\* and 94): every maximal run becomes "_".
RECURSIVE ReplaceRuns(_, _)
ReplaceRuns(name, class) ==
    IF name = <<>> THEN <<>>
    ELSE IF Head(name) \notin class
         THEN <<Head(name)>> \o ReplaceRuns(Tail(name), class)
    ELSE IF Len(name) >= 2 /\ name[2] \in class
         THEN ReplaceRuns(Tail(name), class)
    ELSE <<"_">> \o ReplaceRuns(Tail(name), class)

\* Line 96: str.strip('_').
RECURSIVE StripUnderscores(_)
StripUnderscores(name) ==
    IF name = <<>> THEN <<>>
    ELSE IF Head(name) = "_" THEN StripUnderscores(Tail(name))
    ELSE IF name[Len(name)] = "_"
         THEN StripUnderscores(SubSeq(name, 1, Len(name) - 1))
    ELSE name

UnknownField == <<"Unknown", "_", "Field">>

\* clean_column_name without line 96.
clean_column_name_unstripped(column_name) ==
    LET cleaned == ReplaceRuns(ReplaceRuns(RemoveSpecial(column_name), Whitespace), {"_"})
    IN IF cleaned # <<>> THEN cleaned ELSE UnknownField

\* Lines 86-98.
clean_column_name(column_name) ==
    LET cleaned == StripUnderscores(
                     ReplaceRuns(ReplaceRuns(RemoveSpecial(column_name), Whitespace), {"_"}))
    IN IF cleaned # <<>> THEN cleaned ELSE UnknownField

(***************************************************************************)
(* DataValidator (utils.py lines 58-81).  A marks string is a sequence of  *)
(* characters: the digits "0", "1", "5", "8", the separators "/" and ".",  *)
(* the white space " " and "NL" (a newline), and letters (every other      *)
(* lexeme; a word lexeme is a run of letters).                             *)
(***************************************************************************)
DigitChars == {"0", "1", "5", "8"}

Blank == {" ", "NL"}

Sentinels == { <<"Not", " ", "Available">>, <<"N", "/", "A">>, <<>> }

\* str.strip(): leading and trailing white space removed.
RECURSIVE Strip(_)
Strip(str) ==
    IF str = <<>> THEN <<>>
    ELSE IF Head(str) \in Blank THEN Strip(Tail(str))
    ELSE IF str[Len(str)] \in Blank THEN Strip(SubSeq(str, 1, Len(str) - 1))
    ELSE str

\* \d+ taken greedily from position i: the position after the run of
\* digits that starts at i (i itself when str[i] is no digit).
RECURSIVE DigitsEnd(_, _)
DigitsEnd(str, i) ==
    IF i <= Len(str) /\ str[i] \in DigitChars THEN DigitsEnd(str, i + 1) ELSE i

\* $ at position i: the end of the string, or just before a newline that
\* ends the string.
AtEnd(str, i) == i = Len(str) + 1 \/ (i = Len(str) /\ str[i] = "NL")

\* re.match(r'^\d+$', str)
MatchInteger(str) ==
    LET j == DigitsEnd(str, 1) IN j > 1 /\ AtEnd(str, j)

\* re.match(r'^\d+<sep>\d+$', str) for the separator "/" (line 67) or
\* "." (line 68).
MatchTwoNumbers(str, sep) ==
    LET j == DigitsEnd(str, 1)
        k == DigitsEnd(str, j + 1)
    IN /\ j > 1
       /\ j <= Len(str) /\ str[j] = sep
       /\ k > j + 1
       /\ AtEnd(str, k)

\* validate_marks matching the patterns against the string as it stands.
validate_marks_unstripped(marks_str) ==
    IF marks_str = <<>> \/ marks_str \in Sentinels THEN FALSE
    ELSE \/ MatchInteger(marks_str)
         \/ MatchTwoNumbers(marks_str, "/")
         \/ MatchTwoNumbers(marks_str, ".")

\* Lines 58-71.
validate_marks(marks_str) ==
    IF marks_str = <<>> \/ marks_str \in Sentinels THEN FALSE
    ELSE LET t == Strip(marks_str)
         IN \/ MatchInteger(t)
            \/ MatchTwoNumbers(t, "/")
            \/ MatchTwoNumbers(t, ".")

\* The first match of r'\d+(?:\.\d+)?' at or after position i: its first
\* and last position, or none.
RECURSIVE FirstNumber(_, _)
FirstNumber(str, i) ==
    IF i > Len(str) THEN [found |-> FALSE, from |-> 0, to |-> 0]
    ELSE IF str[i] \notin DigitChars THEN FirstNumber(str, i + 1)
    ELSE LET j == DigitsEnd(str, i)
             k == DigitsEnd(str, j + 1)
         IN IF j <= Len(str) /\ str[j] = "." /\ k > j + 1
            THEN [found |-> TRUE, from |-> i, to |-> k - 1]
            ELSE [found |-> TRUE, from |-> i, to |-> j - 1]

\* clean_numeric_value returning the last match of findall, not the first.
RECURSIVE LastNumberFrom(_, _)
LastNumberFrom(str, i) ==
    LET m == FirstNumber(str, i)
    IN IF ~m.found THEN m
       ELSE LET n == LastNumberFrom(str, m.to + 1) IN IF n.found THEN n ELSE m

clean_numeric_value_last(value) ==
    LET m == LastNumberFrom(value, 1)
    IN IF value = <<>> \/ ~m.found THEN <<"0">> ELSE SubSeq(value, m.from, m.to)

\* Lines 73-81.
clean_numeric_value(value) ==
    LET m == FirstNumber(value, 1)
    IN IF value = <<>> \/ ~m.found THEN <<"0">> ELSE SubSeq(value, m.from, m.to)

(***************************************************************************)
(* FileManager.get_unique_filename (utils.py lines 152-163).  A file name  *)
(* is a sequence of characters: letters (word lexemes), digits, "_" and    *)
(* "."; a directory is the set of the names that exist in it.              *)
(***************************************************************************)
\* os.path.splitext: the extension starts at the last dot, unless only
\* dots come before that dot (then there is no extension).
splitext(path) ==
    LET dots == {i \in 1..Len(path) :
                    path[i] = "." /\ \E j \in 1..(i - 1) : path[j] # "."}
    IN IF dots = {} THEN [name |-> path, ext |-> <<>>]
       ELSE [name |-> SubSeq(path, 1, Max(dots) - 1),
             ext |-> SubSeq(path, Max(dots), Len(path))]

DecimalDigits == <<"0", "1", "2", "3", "4", "5", "6", "7", "8", "9">>

\* str(counter) inside the f-string of line 160.
RECURSIVE Decimal(_)
Decimal(k) ==
    IF k < 10 THEN <<DecimalDigits[k + 1]>>
    ELSE Decimal(k \div 10) \o <<DecimalDigits[(k % 10) + 1]>>

\* Line 160 without the extension.
numbered_filename_without_ext(name, counter, ext) == name \o <<"_">> \o Decimal(counter)

\* Line 160: f"{name}_{counter}{ext}"
numbered_filename(name, counter, ext) == name \o <<"_">> \o Decimal(counter) \o ext

\* Line 159: os.path.exists(os.path.join(directory, filename))
path_exists(directory, filename) == filename \in directory

(***************************************************************************)
(* The sink.  The output directory is a function from file names to file   *)
(* contents; a file name is its stem (name lexemes) and its extension.     *)
(***************************************************************************)
FileName(stem, ext) == [stem |-> stem, ext |-> ext]

\* strftime("%Y%m%d_%H%M%S") of the clock: one stamp per second, the
\* second t written as the digit Digits[t + 1].
Stamp(t) == Digits[t + 1]

\* Line 231: f"marksheet_data_{timestamp}.csv"
DefaultName(t) == FileName(<<"marksheet", "_", "data", "_", Stamp(t)>>, ".csv")

None == FileName(<<>>, "")

\* df.to_csv(filepath, index=False): a header line of the column names and
\* one line of the values.
to_csv(df) ==
    [header |-> [i \in 1..Len(df) |-> df[i].name],
     lines |-> << [i \in 1..Len(df) |-> df[i].val] >>]

\* Lines 225-238: the file is written under the name as it stands,
\* replacing what a file of that name held.
save_to_csv(fs, df, filename, t) ==
    LET fname == IF filename = None THEN DefaultName(t) ELSE filename
    IN [files |-> [f \in DOMAIN fs \cup {fname} |->
                      IF f = fname THEN to_csv(df) ELSE fs[f]],
        path |-> fname]

(***************************************************************************)
(* The pipeline.                                                           *)
(***************************************************************************)
Images == {"valid", "corrupt"}

ApiOutcomes == {"ok", "transport_error", "http_error", "no_choices"}

\* Lines 26-46: Image.open / verify raise on bytes that are no image.
encode_image_to_base64(image) == [raised |-> image = "corrupt"]

\* Lines 99-141: one POST; a transport error, raise_for_status or a reply
\* without choices raise; the parser runs inside the same try, so what it
\* raises leaves analyze_marksheet too.
analyze_marksheet(api, text) ==
    IF api # "ok"
    THEN [raised |-> TRUE, val |-> EmptyDict, stages |-> <<"request">>, calls |-> 1]
    ELSE LET r == parse_extraction_result(text)
         IN [raised |-> r.raised, val |-> r.val,
             stages |-> <<"request", "parse">>, calls |-> 1]

Outcome(outcome, stages, calls, written, fs) ==
    [outcome |-> outcome, stages |-> stages, apiCalls |-> calls,
     written |-> written, files |-> fs]

\* process_marksheet absorbing a failed request into an error record, the
\* way a parse failure is absorbed.
process_marksheet_absorbing(image, api, text, fs, t) ==
    LET enc == encode_image_to_base64(image)
        an == analyze_marksheet(api, text)
        val == IF an.raised THEN ErrorRecord(text) ELSE an.val
        df == create_csv_data(val)
        sv == save_to_csv(fs, df, None, t)
    IN IF enc.raised THEN Outcome("raised", <<"encode">>, 0, <<>>, fs)
       ELSE Outcome("returned", <<"encode">> \o an.stages \o <<"flatten", "save">>,
                    an.calls, <<sv.path>>, sv.files)

\* Lines 240-258.
process_marksheet(image, api, text, fs, t) ==
    LET enc == encode_image_to_base64(image)
        an == analyze_marksheet(api, text)
        df == create_csv_data(an.val)
        sv == save_to_csv(fs, df, None, t)
    IN IF enc.raised THEN Outcome("raised", <<"encode">>, 0, <<>>, fs)
       ELSE IF an.raised
            THEN Outcome("raised", <<"encode">> \o an.stages, an.calls, <<>>, fs)
       ELSE Outcome("returned", <<"encode">> \o an.stages \o <<"flatten", "save">>,
                    an.calls, <<sv.path>>, sv.files)

(***************************************************************************)
(* Input sets.                                                             *)
(***************************************************************************)
BaseValues ==
    <<"R123", "Asha", "10", "DPS", "2024", "450", "500", "90", "A">>

SampleEntries ==
    { Entry(EntryKeys, <<"Math">>, TRUE, "40", "50"),
      Entry(EntryKeys, <<"Math", "!">>, TRUE, "35", "50"),
      Entry(EntryKeys, <<"Total">>, TRUE, "35", "50"),
      Entry(EntryKeys, <<"Total", " ", "Max">>, TRUE, "35", "50"),
      Entry(EntryKeys, <<>>, TRUE, "40", "50"),
      Entry({"marks_obtained", "max_marks"}, <<>>, FALSE, "40", "50"),
      Entry({"subject"}, <<"Math">>, TRUE, "", ""),
      Entry(EntryKeys, <<"7">>, FALSE, "40", "50"),
      NonDictEntry }

BaseRecord(present) ==
    [k \in present |-> BaseValues[CHOOSE i \in 1..Len(BaseKeys) : BaseKeys[i] = k]]

BaseKeySet == {BaseKeys[i] : i \in 1..Len(BaseKeys)}

\* The records handed to create_csv_data: any subset of the base keys, and
\* sectionwise_marks absent, the string "Not Available", or a list.
FlatRecords ==
    {BaseRecord(present) : present \in SUBSET BaseKeySet}
    \cup {DictPut(BaseRecord(present), "sectionwise_marks", sm) :
            present \in SUBSET BaseKeySet,
            sm \in {Str(NA)} \cup {Lst(xs) : xs \in SeqsUpTo(SampleEntries, MaxSections)}}

\* Values that are no dict.
NonMappings == {NonMapping(type) : type \in {"list", "str", "NoneType"}}

SuppliedNames == {FileName(<<"report">>, ".csv")}

SampleFrames == {create_csv_data(ObjFull), create_csv_data(ObjPart)}

NotCalled == [called |-> FALSE]

\* All that process_marksheet takes from a response text: whether parsing
\* raised, and the row built from the parsed record.
ReplyClass(text) ==
    LET r == parse_extraction_result(text)
    IN [raised |-> r.raised, exc |-> r.exc,
        row |-> IF r.raised THEN <<>> ELSE create_csv_data(r.val)]

\* One text of Texts for each class: the pipeline behaves on every text of
\* Texts as it does on the text of Replies with the same class.
Replies ==
    {CHOOSE t \in Texts : ReplyClass(t) = c : c \in {ReplyClass(u) : u \in Texts}}

(***************************************************************************)
(* The parts of the state a specification does not use, at rest.           *)
(***************************************************************************)
Procs == {1, 2}

\* An invocation of process_marksheet before its first step.
NotStarted(image) ==
    [pc |-> "encode", image |-> image, extracted_data |-> EmptyDict,
     df |-> <<>>, filename |-> None]

\* app.py lines 20-29: the session state of a new session.
PyNone == NonMapping("NoneType")

SessionInit ==
    [processing_complete |-> FALSE, extracted_data |-> PyNone,
     csv_data |-> PyNone, csv_filepath |-> PyNone]

AppIdle ==
    /\ procs = [p \in Procs |-> NotStarted("valid")]
    /\ ss = SessionInit

UtilIdle ==
    /\ ucall = NotCalled
    /\ uq = NotCalled

(***************************************************************************)
(* Spec: the pipeline and the sink.                                        *)
(***************************************************************************)
Idle ==
    [called |-> FALSE, seq |-> 0, image |-> "valid", api |-> "ok",
     text |-> <<>>, outcome |-> "none", stages |-> <<>>, apiCalls |-> 0, written |-> <<>>]

Init ==
    /\ files = [f \in {} |-> to_csv(<<>>)]
    /\ now = 0
    /\ inv = Idle
    /\ ptext = <<>>
    /\ pres = NotCalled
    /\ frec = EmptyDict
    /\ frow = NotCalled
    /\ AppIdle
    /\ UtilIdle

\* One call of process_marksheet (app.py line 168) with any image, any
\* outcome of the request and any response text.  inv describes the call;
\* inv.seq alternates, so a step of this action always changes inv.
ProcessMarksheet ==
    \E image \in Images, api \in ApiOutcomes, text \in Replies :
        LET r == process_marksheet(image, api, text, files, now)
        IN /\ files' = r.files
           /\ inv' = [called |-> TRUE, seq |-> 1 - inv.seq,
                      image |-> image, api |-> api, text |-> text,
                      outcome |-> r.outcome, stages |-> r.stages,
                      apiCalls |-> r.apiCalls, written |-> r.written]
           /\ UNCHANGED <<now, ptext, pres, frec, frow, appVars, utilVars>>

\* A direct call of save_to_csv with a supplied file name or none.
SaveToCsv ==
    \E df \in SampleFrames, filename \in SuppliedNames \cup {None} :
        /\ files' = save_to_csv(files, df, filename, now).files
        /\ UNCHANGED <<now, inv, ptext, pres, frec, frow, appVars, utilVars>>

\* The wall clock passes to the next second.
Tick ==
    /\ now < MaxTime
    /\ now' = now + 1
    /\ UNCHANGED <<files, inv, ptext, pres, frec, frow, appVars, utilVars>>

Next == ProcessMarksheet \/ SaveToCsv \/ Tick

Spec == Init /\ [][Next]_vars

(***************************************************************************)
(* SpecParse: parse_extraction_result applied to every response text.      *)
(***************************************************************************)
InitParse ==
    /\ ptext \in Texts
    /\ pres = NotCalled
    /\ files = [f \in {} |-> to_csv(<<>>)]
    /\ now = 0
    /\ inv = Idle
    /\ frec = EmptyDict
    /\ frow = NotCalled
    /\ AppIdle
    /\ UtilIdle

ParseStep ==
    /\ ~pres.called
    /\ pres' = [called |-> TRUE, result |-> parse_extraction_result(ptext)]
    /\ UNCHANGED <<ptext, frec, frow, files, now, inv, appVars, utilVars>>

NextParse == ParseStep

SpecParse == InitParse /\ [][NextParse]_vars

(***************************************************************************)
(* SpecFlat: create_csv_data applied to every record of FlatRecords.       *)
(***************************************************************************)
InitFlat ==
    /\ frec \in FlatRecords \cup NonMappings
    /\ frow = NotCalled
    /\ ptext = <<>>
    /\ pres = NotCalled
    /\ files = [f \in {} |-> to_csv(<<>>)]
    /\ now = 0
    /\ inv = Idle
    /\ AppIdle
    /\ UtilIdle

FlattenStep ==
    /\ ~frow.called
    /\ frow' = [called |-> TRUE, row |-> create_csv_data(frec)]
    /\ UNCHANGED <<frec, ptext, pres, files, now, inv, appVars, utilVars>>

NextFlat == FlattenStep

SpecFlat == InitFlat /\ [][NextFlat]_vars

(***************************************************************************)
(* SpecPar: two invocations of process_marksheet run in parallel by the    *)
(* host, each on its own image.  An invocation runs its stages in order    *)
(* (lines 243-255); the stages of the two interleave in any way.  Inside   *)
(* save_to_csv the clock is read and the name built (lines 230-231) before *)
(* the file is written (line 234), and the other invocation may run        *)
(* between the two.                                                        *)
(***************************************************************************)
InitPar ==
    /\ procs \in [Procs -> {NotStarted(image) : image \in Images}]
    /\ files = [f \in {} |-> to_csv(<<>>)]
    /\ now = 0
    /\ inv = Idle
    /\ ss = SessionInit
    /\ ptext = <<>>
    /\ pres = NotCalled
    /\ frec = EmptyDict
    /\ frow = NotCalled
    /\ UtilIdle

parVars == <<inv, ss, ptext, pres, frec, frow, utilVars>>

\* Line 243: step 1, encode_image_to_base64.
PEncode(p) ==
    /\ procs[p].pc = "encode"
    /\ procs' = [procs EXCEPT ![p].pc =
                    IF encode_image_to_base64(procs[p].image).raised
                    THEN "raised" ELSE "analyze"]
    /\ UNCHANGED <<files, now, parVars>>

\* Line 246: step 2, analyze_marksheet, with any outcome of the request
\* and any response text.
PAnalyze(p) ==
    /\ procs[p].pc = "analyze"
    /\ \E api \in ApiOutcomes, text \in Replies :
          LET an == analyze_marksheet(api, text)
          IN procs' = [procs EXCEPT ![p].pc = IF an.raised THEN "raised" ELSE "flatten",
                                    ![p].extracted_data = an.val]
    /\ UNCHANGED <<files, now, parVars>>

\* Line 249: step 3, create_csv_data.
PFlatten(p) ==
    /\ procs[p].pc = "flatten"
    /\ procs' = [procs EXCEPT ![p].pc = "stamp",
                              ![p].df = create_csv_data(procs[p].extracted_data)]
    /\ UNCHANGED <<files, now, parVars>>

\* Lines 228-231: step 4 up to the file name, built from the clock.
PStamp(p) ==
    /\ procs[p].pc = "stamp"
    /\ procs' = [procs EXCEPT ![p].pc = "write", ![p].filename = DefaultName(now)]
    /\ UNCHANGED <<files, now, parVars>>

\* Lines 233-235: the file is written under that name and the path returned.
PWrite(p) ==
    /\ procs[p].pc = "write"
    /\ files' = save_to_csv(files, procs[p].df, procs[p].filename, now).files
    /\ procs' = [procs EXCEPT ![p].pc = "returned"]
    /\ UNCHANGED <<now, parVars>>

TickPar ==
    /\ now < MaxTime
    /\ now' = now + 1
    /\ UNCHANGED <<files, procs, parVars>>

NextPar ==
    \/ \E p \in Procs : PEncode(p)
    \/ \E p \in Procs : PAnalyze(p)
    \/ \E p \in Procs : PFlatten(p)
    \/ \E p \in Procs : PStamp(p)
    \/ \E p \in Procs : PWrite(p)
    \/ TickPar

SpecPar == InitPar /\ [][NextPar]_vars

(***************************************************************************)
(* SpecUtil: the string helpers of utils.py applied to every string of     *)
(* their input sets.                                                       *)
(***************************************************************************)
NameChars == {"Math", "7", "_", " ", "TAB", "!"}

MathAdvanced == <<"Math", " ", "(", "Advanced", ")", "!", "!">>

ColumnNames == SeqsUpTo(NameChars, MaxChars) \cup {MathAdvanced}

MarkChars == {"8", "0", ".", "/", " ", "x", "NL"}

EightyFiveOfHundred == <<"8", "5", "/", "1", "0", "0">>

ScoredEightyFive == <<"scored", " ", "8", "5", " ", "pts">>

MarkStrings ==
    SeqsUpTo(MarkChars, MaxChars) \cup Sentinels
        \cup {EightyFiveOfHundred, ScoredEightyFive, <<" ", "N", "/", "A">>}

Pending(fn, arg) == [called |-> FALSE, fn |-> fn, arg |-> arg]

Done(fn, arg, result) == [called |-> TRUE, fn |-> fn, arg |-> arg, result |-> result]

InitUtil ==
    /\ ucall \in {Pending("clean_column_name", a) : a \in ColumnNames}
                 \cup {Pending(fn, a) : fn \in {"validate_marks", "clean_numeric_value"},
                                        a \in MarkStrings}
    /\ uq = NotCalled
    /\ AppIdle
    /\ files = [f \in {} |-> to_csv(<<>>)]
    /\ now = 0
    /\ inv = Idle
    /\ ptext = <<>>
    /\ pres = NotCalled
    /\ frec = EmptyDict
    /\ frow = NotCalled

utilRest == <<uq, appVars, files, now, inv, ptext, pres, frec, frow>>

CleanColumnName ==
    /\ ~ucall.called /\ ucall.fn = "clean_column_name"
    /\ ucall' = Done(ucall.fn, ucall.arg, clean_column_name(ucall.arg))
    /\ UNCHANGED utilRest

ValidateMarks ==
    /\ ~ucall.called /\ ucall.fn = "validate_marks"
    /\ ucall' = Done(ucall.fn, ucall.arg, validate_marks(ucall.arg))
    /\ UNCHANGED utilRest

CleanNumericValue ==
    /\ ~ucall.called /\ ucall.fn = "clean_numeric_value"
    /\ ucall' = Done(ucall.fn, ucall.arg, clean_numeric_value(ucall.arg))
    /\ UNCHANGED utilRest

NextUtil == CleanColumnName \/ ValidateMarks \/ CleanNumericValue

SpecUtil == InitUtil /\ [][NextUtil]_vars

(***************************************************************************)
(* SpecUI: the session of app.py.  Each run of the script handles one      *)
(* click: "Extract Information" (lines 152-186) or "Clear Results" (lines  *)
(* 214-219).                                                               *)
(***************************************************************************)
\* The handler of "Extract Information" storing the flag before the call
\* of process_marksheet instead of after it.
extract_information_flag_first(session, r, extracted_data, df) ==
    IF r.outcome = "returned"
    THEN [processing_complete |-> TRUE, extracted_data |-> extracted_data,
          csv_data |-> df, csv_filepath |-> r.written[1]]
    ELSE [session EXCEPT !.processing_complete = TRUE]

\* Lines 153-186: the session state after the handler, r being the outcome
\* of process_marksheet (line 168) and extracted_data, df what it returns
\* beside the path.  When it raises, lines 177-180 are not reached.
extract_information(session, r, extracted_data, df) ==
    IF r.outcome = "returned"
    THEN [processing_complete |-> TRUE, extracted_data |-> extracted_data,
          csv_data |-> df, csv_filepath |-> r.written[1]]
    ELSE session

InitUI ==
    /\ ss = SessionInit
    /\ procs = [p \in Procs |-> NotStarted("valid")]
    /\ files = [f \in {} |-> to_csv(<<>>)]
    /\ now = 0
    /\ inv = Idle
    /\ ptext = <<>>
    /\ pres = NotCalled
    /\ frec = EmptyDict
    /\ frow = NotCalled
    /\ UtilIdle

uiRest == <<procs, ptext, pres, frec, frow, utilVars>>

\* A click on "Extract Information" with any uploaded image, any outcome
\* of the request and any response text.
ExtractInformation ==
    \E image \in Images, api \in ApiOutcomes, text \in Replies :
        LET r == process_marksheet(image, api, text, files, now)
            extracted_data == analyze_marksheet(api, text).val
        IN /\ files' = r.files
           /\ inv' = [called |-> TRUE, seq |-> 1 - inv.seq,
                      image |-> image, api |-> api, text |-> text,
                      outcome |-> r.outcome, stages |-> r.stages,
                      apiCalls |-> r.apiCalls, written |-> r.written]
           /\ ss' = extract_information(ss, r, extracted_data,
                                        create_csv_data(extracted_data))
           /\ UNCHANGED <<now, uiRest>>

\* Lines 189 and 214-219: the button is shown while processing_complete.
ClearResults ==
    /\ ss.processing_complete
    /\ ss' = [processing_complete |-> FALSE, extracted_data |-> PyNone,
              csv_data |-> PyNone, csv_filepath |-> PyNone]
    /\ UNCHANGED <<files, now, inv, uiRest>>

TickUI ==
    /\ now < MaxTime
    /\ now' = now + 1
    /\ UNCHANGED <<files, inv, ss, uiRest>>

NextUI == ExtractInformation \/ ClearResults \/ TickUI

SpecUI == InitUI /\ [][NextUI]_vars

(***************************************************************************)
(* SpecUnique: one call of get_unique_filename, statement by statement,    *)
(* on every directory of Directories.  The call runs to its end: the loop  *)
(* test and body are taken as long as they can be (weak fairness).         *)
(***************************************************************************)
BaseFilenames ==
    { <<"report", ".", "csv">>, <<"report">>, <<".", "env">>,
      <<"a", ".", "tar", ".", "gz">>, <<"report", "_", "1", ".", "csv">> }

\* Names a directory may hold beside the base name: the numbered names
\* the call tries, and names numbered in other places.
Neighbours(base) ==
    {numbered_filename(splitext(base).name, k, splitext(base).ext) : k \in 1..MaxFiles}
        \cup {base \o <<"_", "1">>, <<"_", "1">> \o base}

Directories(base) == SUBSET ({base} \cup Neighbours(base))

InitUnique ==
    /\ \E base \in BaseFilenames : \E directory \in Directories(base) :
          uq = [pc |-> "start", directory |-> directory, base_filename |-> base,
                counter |-> 0, filename |-> <<>>, name |-> <<>>, ext |-> <<>>]
    /\ ucall = NotCalled
    /\ AppIdle
    /\ files = [f \in {} |-> to_csv(<<>>)]
    /\ now = 0
    /\ inv = Idle
    /\ ptext = <<>>
    /\ pres = NotCalled
    /\ frec = EmptyDict
    /\ frow = NotCalled

uniqueRest == <<ucall, appVars, files, now, inv, ptext, pres, frec, frow>>

\* Lines 155-157.
UniqueStart ==
    /\ uq.pc = "start"
    /\ uq' = [uq EXCEPT !.pc = "while", !.counter = 1,
                         !.filename = uq.base_filename,
                         !.name = splitext(uq.base_filename).name,
                         !.ext = splitext(uq.base_filename).ext]
    /\ UNCHANGED uniqueRest

\* Lines 159-161: the test succeeds and the body runs.
UniqueLoop ==
    /\ uq.pc = "while"
    /\ path_exists(uq.directory, uq.filename)
    /\ uq' = [uq EXCEPT !.filename = numbered_filename(uq.name, uq.counter, uq.ext),
                         !.counter = uq.counter + 1]
    /\ UNCHANGED uniqueRest

\* Lines 159 and 163: the test fails and filename is returned.
UniqueReturn ==
    /\ uq.pc = "while"
    /\ ~path_exists(uq.directory, uq.filename)
    /\ uq' = [uq EXCEPT !.pc = "returned"]
    /\ UNCHANGED uniqueRest

NextUnique == UniqueStart \/ UniqueLoop \/ UniqueReturn

SpecUnique == InitUnique /\ [][NextUnique]_vars /\ WF_vars(NextUnique)

(***************************************************************************)
(* Properties.                                                             *)
(***************************************************************************)

\* C1 (SpecParse): parse_extraction_result never raises; for every response
\* text it returns a record.
C1_ParseNeverRaises == pres.called => ~pres.result.raised

\* C2 (Spec): whenever image encoding and the request both succeed,
\* process_marksheet returns and has persisted exactly one row, whatever
\* the response text is.
C2_AlwaysOneRow ==
    (inv.called /\ inv.image = "valid" /\ inv.api = "ok")
        => /\ inv.outcome = "returned"
           /\ Len(inv.written) = 1
           /\ \A i \in 1..Len(inv.written) : inv.written[i] \in DOMAIN files

\* C3 (SpecParse): when no JSON candidate is found, or the candidate fails
\* to parse as JSON, the error record is returned: rrn "Extraction Failed",
\* sectionwise_marks the empty list, a non-empty error message, and
\* raw_response the input text unchanged.
C3_ErrorRecordOnParseFailure ==
    (pres.called /\ (~pres.result.loaded.found
                        \/ ~json_loads(pres.result.loaded.str).ok))
        => /\ ~pres.result.raised
           /\ pres.result.val["rrn"] = "Extraction Failed"
           /\ pres.result.val["sectionwise_marks"] = Lst(<<>>)
           /\ "error" \in DOMAIN pres.result.val
           /\ pres.result.val["error"] # <<>>
           /\ pres.result.val["raw_response"] = ptext

\* C4 (SpecParse): after a successful parse the returned record holds rrn,
\* sectionwise_marks and total_marks; a missing rrn or total_marks is
\* "Not Available", a missing sectionwise_marks is the empty sequence, and
\* the keys that were present keep their parsed values.
C4_RequiredKeysDefaulted ==
    (pres.called /\ ~pres.result.raised /\ pres.result.loaded.found
        /\ json_loads(pres.result.loaded.str).ok)
        => LET obj == json_loads(pres.result.loaded.str).obj
               val == pres.result.val
           IN /\ {"rrn", "sectionwise_marks", "total_marks"} \subseteq DOMAIN val
              /\ "rrn" \notin DOMAIN obj => val["rrn"] = NA
              /\ "total_marks" \notin DOMAIN obj => val["total_marks"] = NA
              /\ "sectionwise_marks" \notin DOMAIN obj
                    => val["sectionwise_marks"] = Lst(<<>>)
              /\ \A k \in DOMAIN obj : val[k] = obj[k]

\* The records whose sectionwise_marks is a list of objects that each hold
\* a string subject, marks_obtained and max_marks.
WellFormedSections(rec) ==
    /\ "sectionwise_marks" \in DOMAIN rec
    /\ rec["sectionwise_marks"].t = "list"
    /\ \A i \in 1..Len(rec["sectionwise_marks"].items) :
          LET e == rec["sectionwise_marks"].items[i]
          IN e.kind = "dict" /\ e.keys = EntryKeys /\ e.subjStr

\* C5 (SpecFlat): a record with N section entries gives a row of exactly
\* 9 + 2N columns, and the columns of section i hold section i's marks: no
\* section's marks are dropped or overwritten by another section's.
C5_NinePlusTwoN ==
    (frow.called /\ WellFormedSections(frec))
        => LET items == frec["sectionwise_marks"].items
           IN /\ Len(frow.row) = 9 + 2 * Len(items)
              /\ \A i \in 1..Len(items) :
                    /\ frow.row[9 + 2 * i - 1].val = items[i].marks_obtained
                    /\ frow.row[9 + 2 * i].val = items[i].max_marks

\* Reading a column back from a row.
ReadColumn(row, name) ==
    IF \E i \in 1..Len(row) : row[i].name = name
    THEN row[CHOOSE i \in 1..Len(row) : row[i].name = name].val
    ELSE "<no such column>"

\* C6 (SpecFlat): reading the 9 base columns back from the row gives the
\* record's values of the 9 base keys (the sentinel for an absent key); no
\* section column replaces a base column's value.
C6_BaseFieldsRoundTrip ==
    (frow.called /\ WellFormedSections(frec))
        => \A i \in 1..Len(BaseKeys) :
              ReadColumn(frow.row, BaseColumns[i]) = Get(frec, BaseKeys[i], NA)

\* C7 (Spec): no call of save_to_csv overwrites or changes a file that
\* already exists in the output directory.
C7_NoOverwrite ==
    [][\A f \in DOMAIN files : f \in DOMAIN files' /\ files'[f] = files[f]]_vars

\* C8 (Spec): when encoding the image fails or the request fails,
\* process_marksheet raises, no later stage runs (the request is not made
\* after a failed encoding; nothing is parsed, flattened or saved), the
\* request is made at most once, and the output directory is unchanged.
C8_FatalFailuresAbort ==
    [][(inv'.seq # inv.seq /\ (inv'.image = "corrupt" \/ inv'.api # "ok"))
          => /\ inv'.outcome = "raised"
             /\ files' = files
             /\ inv'.written = <<>>
             /\ inv'.apiCalls <= 1
             /\ inv'.image = "corrupt" => inv'.stages = <<"encode">>
             /\ \A i \in 1..Len(inv'.stages) :
                   inv'.stages[i] \notin {"parse", "flatten", "save"}]_vars

\* C8 witness: a call whose request got a reply without choices raised,
\* with a file of an earlier call in the directory.
C8_Witness ==
    /\ inv.called /\ inv.image = "valid" /\ inv.api = "no_choices"
    /\ inv.outcome = "raised" /\ inv.stages = <<"encode", "request">>
    /\ DOMAIN files # {}

\* A line of the text starts with ``` at position j: after the newline that
\* ends CLOSE, or after the newline that ends an OPEN.
FenceLineAfter(text, j) ==
    /\ j \in 1..Len(text)
    /\ \/ text[j] = "CLOSE"
       \/ /\ text[j] = "OPEN" /\ j + 1 \in 1..Len(text)
          /\ text[j + 1] = "TK" \/ text[j + 1] = "OPEN"

\* A fenced block of a text: an opening ```json line, the interior, and a
\* closing ``` at the start of a line after the interior.  An opening line
\* directly followed by ``` (no interior, not even an empty line) is none.
HasFencedBlock(text) ==
    \E i, j \in 1..Len(text) : i < j /\ text[i] = "OPEN" /\ FenceLineAfter(text, j)

\* The text after position k up to the next closing fence.
RECURSIVE InteriorFrom(_, _)
InteriorFrom(text, k) ==
    IF k > Len(text) THEN <<>>
    ELSE IF text[k] = "CLOSE" THEN <<>>
    ELSE IF FenceLineAfter(text, k) THEN <<"FJ">>
    ELSE <<text[k]>> \o InteriorFrom(text, k + 1)

\* The interior of the first fenced block.
RECURSIVE FirstInterior(_, _)
FirstInterior(text, k) ==
    IF text[k] = "OPEN" THEN InteriorFrom(text, k + 1) ELSE FirstInterior(text, k + 1)

\* The span from the first '{' to the last '}'.
RECURSIVE DropBeforeBrace(_)
DropBeforeBrace(text) ==
    IF text = <<>> \/ HasLB(Head(text)) THEN text ELSE DropBeforeBrace(Tail(text))

RECURSIVE DropAfterBrace(_)
DropAfterBrace(text) ==
    IF text = <<>> \/ HasRB(text[Len(text)]) THEN text
    ELSE DropAfterBrace(SubSeq(text, 1, Len(text) - 1))

\* What parsing a candidate alone gives: the exception, the error record,
\* or the values of the parsed object.
CandidateOutcome(str) ==
    LET p == json_loads(str)
    IN IF ~p.ok THEN "error record"
       ELSE IF p.kind # "object" THEN "raised"
       ELSE IF "rrn" \in DOMAIN p.obj THEN p.obj["rrn"]
       ELSE IF "student_name" \in DOMAIN p.obj THEN p.obj["student_name"]
       ELSE "empty object"

ResultOutcome(r) ==
    IF r.raised THEN "raised"
    ELSE IF "error" \in DOMAIN r.val THEN "error record"
    ELSE IF r.val["rrn"] # NA THEN r.val["rrn"]
    ELSE IF "student_name" \in DOMAIN r.val THEN r.val["student_name"]
    ELSE "empty object"

\* A fenced block whose closing ``` may also be the line right after the
\* opening line: the block with no interior, ```json, newline, ```.
HasAnyFencedBlock(text) ==
    \/ HasFencedBlock(text)
    \/ \E i \in 1..Len(text) : text[i] = "OPEN" /\ i < Len(text) /\ text[i + 1] = "TK"

Suffix(name) == IF Len(name) >= 2 THEN SubSeq(name, Len(name) - 1, Len(name)) ELSE <<>>

Stem(name) == SubSeq(name, 1, Len(name) - 2)

\* C10 (SpecFlat): the row lists the 9 base columns first, in the fixed
\* order, each holding the record's value or "Not Available", followed by
\* one pair <stem>_Marks = marks_obtained, <stem>_Max = max_marks per
\* section, in section order.
C10_ColumnLayout ==
    (frow.called /\ WellFormedSections(frec))
        => LET items == frec["sectionwise_marks"].items
               row == frow.row
           IN /\ Len(row) = 9 + 2 * Len(items)
              /\ \A i \in 1..Len(BaseKeys) :
                    row[i] = Cell(BaseColumns[i], Get(frec, BaseKeys[i], NA))
              /\ \A k \in 1..Len(items) :
                    /\ Suffix(row[9 + 2 * k - 1].name) = <<"_", "Marks">>
                    /\ Suffix(row[9 + 2 * k].name) = <<"_", "Max">>
                    /\ Stem(row[9 + 2 * k - 1].name) = Stem(row[9 + 2 * k].name)
                    /\ row[9 + 2 * k - 1].val = items[k].marks_obtained
                    /\ row[9 + 2 * k].val = items[k].max_marks

\* C11 (SpecPar): two invocations running in parallel do not interfere:
\* under every interleaving an invocation that has returned has its own row
\* in its own file, whatever the other has done, and the two write to
\* different files, also when both take their default name in one second.
C11_ParallelNoInterference ==
    \A p \in Procs :
        procs[p].pc = "returned"
            => /\ procs[p].filename \in DOMAIN files
               /\ files[procs[p].filename] = to_csv(procs[p].df)
               /\ \A q \in Procs \ {p} :
                     procs[q].pc \in {"write", "returned"}
                        => procs[q].filename # procs[p].filename

\* A letter or a digit of a name.
WordChar(c) == c \notin Punct \cup Whitespace \cup {"_"}

\* The letters and digits of a name, in order.
Words(name) == SelectSeq(name, WordChar)

\* The positions of the letters and digits of a name, in order.
RECURSIVE WordPositions(_, _)
WordPositions(name, i) ==
    IF i > Len(name) THEN <<>>
    ELSE IF WordChar(name[i]) THEN <<i>> \o WordPositions(name, i + 1)
    ELSE WordPositions(name, i + 1)

LetterDigitOrSpace(c) == WordChar(c) \/ c \in Whitespace

\* The cleaning as claimed: only letters, digits and white space survive
\* the first step.
ClaimedClean(name) ==
    LET cleaned == StripUnderscores(
                     ReplaceRuns(ReplaceRuns(SelectSeq(name, LetterDigitOrSpace), Whitespace),
                                 {"_"}))
    IN IF cleaned # <<>> THEN cleaned ELSE UnknownField

\* C12 as claimed (SpecUtil): clean_column_name removes every character
\* that is not a letter, digit or white space, turns white-space runs into
\* one underscore, collapses underscores, trims them, and gives
\* "Unknown_Field" for an empty result.
C12_AsClaimed ==
    (ucall.called /\ ucall.fn = "clean_column_name")
        => ucall.result = ClaimedClean(ucall.arg)

\* C12 as amended (SpecUtil): the underscores of the input are kept by the
\* first step and treated as separators.  The result is never empty, never
\* starts or ends with an underscore, never holds two underscores in a row
\* and holds no punctuation or white space; it is "Unknown_Field" when the
\* input has no letter or digit; otherwise it holds the input's letters and
\* digits in order, two neighbours joined by one underscore exactly when
\* white space or an underscore stood between them in the input.
\* "Math (Advanced)!!" gives "Math_Advanced" and "" gives "Unknown_Field".
C12_CleanColumnName ==
    (ucall.called /\ ucall.fn = "clean_column_name")
        => LET a == ucall.arg
               r == ucall.result
               pa == WordPositions(a, 1)
               pr == WordPositions(r, 1)
           IN /\ r # <<>>
              /\ r[1] # "_" /\ r[Len(r)] # "_"
              /\ \A i \in 1..(Len(r) - 1) : ~(r[i] = "_" /\ r[i + 1] = "_")
              /\ \A i \in 1..Len(r) : r[i] \notin Punct \cup Whitespace
              /\ IF Words(a) = <<>> THEN r = UnknownField
                 ELSE /\ Words(r) = Words(a)
                      /\ \A k \in 1..(Len(pa) - 1) :
                            /\ pr[k + 1] - pr[k] \in {1, 2}
                            /\ pr[k + 1] - pr[k] = 2
                                  <=> \E j \in (pa[k] + 1)..(pa[k + 1] - 1) :
                                         a[j] \in Whitespace \cup {"_"}
              /\ a = MathAdvanced => r = <<"Math", "_", "Advanced">>
              /\ a = <<>> => r = UnknownField

\* C12 witness: an input with punctuation, an underscore next to white
\* space and an underscore at the end, cleaned to two words and a digit.
C12_Witness ==
    /\ ucall.called /\ ucall.fn = "clean_column_name"
    /\ ucall.arg = <<"Math", "!", "_", " ">> \/ ucall.arg = <<"Math", "_", " ", "7">>
    /\ ucall.result = <<"Math">> \/ ucall.result = <<"Math", "_", "7">>

\* A string with its leading and trailing white space removed.
Trimmed(str) ==
    LET solid == {i \in 1..Len(str) : str[i] \notin Blank}
    IN IF solid = {} THEN <<>> ELSE SubSeq(str, Min(solid), Max(solid))

\* A string that is entirely digits, or digits, one separator of `seps`
\* and digits.
NumberShaped(str, seps) ==
    /\ str # <<>>
    /\ \A i \in 1..Len(str) : str[i] \in DigitChars \cup seps
    /\ Cardinality({i \in 1..Len(str) : str[i] \in seps}) <= 1
    /\ str[1] \in DigitChars /\ str[Len(str)] \in DigitChars

\* C13 (SpecUtil): validate_marks returns true exactly when the value is
\* none of the sentinels "Not Available", "N/A", "" and, trimmed, is
\* entirely an integer, a fraction digits/digits or a decimal
\* digits.digits; "85/100" is valid and "N/A" is not.
C13_ValidateMarks ==
    (ucall.called /\ ucall.fn = "validate_marks")
        => /\ ucall.result
                <=> /\ ucall.arg \notin Sentinels
                    /\ NumberShaped(Trimmed(ucall.arg), {"/", "."})
           /\ ucall.arg = EightyFiveOfHundred => ucall.result
           /\ ucall.arg = <<"N", "/", "A">> => ~ucall.result

\* C13 witness: a fraction with white space around it is valid.
C13_Witness ==
    /\ ucall.called /\ ucall.fn = "validate_marks"
    /\ ucall.arg = <<" ", "8", "/", "0">>
    /\ ucall.result

\* C14 (SpecUtil): clean_numeric_value returns the numeric substring that
\* starts at the leftmost digit of the text and is as long as an integer or
\* a decimal there can be, and "0" when the text is empty or has no digit;
\* "scored 85 pts" gives "85".
C14_CleanNumericValue ==
    (ucall.called /\ ucall.fn = "clean_numeric_value")
        => LET a == ucall.arg
               digits == {i \in 1..Len(a) : a[i] \in DigitChars}
               first == Min(digits)
               ends == {e \in first..Len(a) : NumberShaped(SubSeq(a, first, e), {"."})}
           IN /\ IF digits = {} THEN ucall.result = <<"0">>
                 ELSE ucall.result = SubSeq(a, first, Max(ends))
              /\ a = ScoredEightyFive => ucall.result = <<"8", "5">>

\* C14 witness: of two numbers in a text, after a letter, the first is
\* returned.
C14_Witness ==
    /\ ucall.called /\ ucall.fn = "clean_numeric_value"
    /\ ucall.arg = <<"x", "8", "/", "0">>
    /\ ucall.result = <<"8">>

\* The stem claimed for the section at 1-based position n: the subject
\* cleaned as clean_column_name cleans it, and Subject_<n> when there is no
\* subject or nothing is left of it.
ClaimedStem(e, n) ==
    LET cleaned == StripUnderscores(
                     ReplaceRuns(ReplaceRuns(RemoveSpecial(e.subject), Whitespace), {"_"}))
    IN IF "subject" \notin e.keys \/ cleaned = <<>>
       THEN <<"Subject", "_", Digits[n]>>
       ELSE cleaned

HasColumn(row, name) == \E i \in 1..Len(row) : row[i].name = name

StepFails(rec) ==
    \/ ~IsMapping(rec)
    \/ /\ "sectionwise_marks" \in DOMAIN rec
       /\ rec["sectionwise_marks"].t = "list"
       /\ \E n \in 1..Len(rec["sectionwise_marks"].items) :
             LET e == rec["sectionwise_marks"].items[n]
             IN e.kind = "dict" /\ "subject" \in e.keys /\ ~e.subjStr

\* Exactly the three columns of the error row.
IsErrorRow(row, rec) ==
    /\ Len(row) = 3
    /\ row[1] = Cell(<<"RRN">>, "Error")
    /\ row[2].name = <<"Error", "_", "Message">> /\ row[2].val # ""
    /\ row[3] = Cell(<<"Raw", "_", "Data">>, [repr |-> rec])

\* The 9 base columns, in order, followed by section columns only.
IsFullRow(row) ==
    /\ Len(row) >= Len(BaseColumns)
    /\ \A i \in 1..Len(BaseColumns) : row[i].name = BaseColumns[i]
    /\ \A k \in (Len(BaseColumns) + 1)..Len(row) :
          Suffix(row[k].name) \in { <<"_", "Marks">>, <<"_", "Max">> }

\* C16 (SpecFlat): create_csv_data returns a row for every input: the
\* error row (RRN "Error", the failure message, the string form of the
\* input, and nothing else) when a step fails, and otherwise the full row
\* of the 9 base columns and the section columns; never a part of a row.
C16_FullRowOrErrorRow ==
    frow.called
        => /\ StepFails(frec) => IsErrorRow(frow.row, frec)
           /\ ~StepFails(frec) => IsFullRow(frow.row)

\* C16 witness: the second of two sections has a number as its subject and
\* the row is the error row, without the columns of the first section.
C16_Witness ==
    /\ frow.called /\ IsMapping(frec) /\ "sectionwise_marks" \in DOMAIN frec
    /\ Len(frec["sectionwise_marks"].items) = 2
    /\ frec["sectionwise_marks"].items[1] = MathEntry
    /\ ~frec["sectionwise_marks"].items[2].subjStr
    /\ "subject" \in frec["sectionwise_marks"].items[2].keys
    /\ IsErrorRow(frow.row, frec)

\* The results a session holds are those of one call of process_marksheet:
\* a record, the row of that record, and a path.
OneCallResults(session) ==
    /\ session.extracted_data # PyNone
    /\ session.csv_data = create_csv_data(session.extracted_data)
    /\ session.csv_filepath # PyNone

\* What a step may do to the session: complete it by a successful call
\* whose record, row and path it then holds, leave it alone when the call
\* raises, and empty it when it is cleared.
SessionStep ==
    /\ (ss' # ss /\ ss'.processing_complete)
          => /\ inv'.seq # inv.seq /\ inv'.outcome = "returned"
             /\ ss'.extracted_data = parse_extraction_result(inv'.text).val
             /\ ss'.csv_filepath = inv'.written[1]
             /\ OneCallResults(ss')
    /\ (inv'.seq # inv.seq /\ inv'.outcome = "raised") => ss' = ss
    /\ (ss.processing_complete /\ ~ss'.processing_complete)
          => /\ ss'.extracted_data = PyNone
             /\ ss'.csv_data = PyNone
             /\ ss'.csv_filepath = PyNone

\* C17 (SpecUI): processing_complete is true only while extracted_data,
\* csv_data and csv_filepath hold the results of one successful call; the
\* session changes to a completed state only by a successful call, whose
\* record, row and path it then holds; a failed Extract leaves the four
\* session variables unchanged; Clear Results sets processing_complete to
\* false and the other three to None.
C17_SessionState ==
    /\ [](ss.processing_complete => OneCallResults(ss))
    /\ [][SessionStep]_vars

\* C17 witness: an Extract has failed while the results of an earlier,
\* successful Extract are displayed.
C17_Witness ==
    /\ ss.processing_complete
    /\ inv.called /\ inv.outcome = "raised"
    /\ OneCallResults(ss)

\* The name and the extension of each base file name, as the claim means
\* them.
NameAndExt(base) ==
    CASE base = <<"report", ".", "csv">> -> [name |-> <<"report">>, ext |-> <<".", "csv">>]
      [] base = <<"report">> -> [name |-> <<"report">>, ext |-> <<>>]
      [] base = <<".", "env">> -> [name |-> <<".", "env">>, ext |-> <<>>]
      [] base = <<"a", ".", "tar", ".", "gz">>
            -> [name |-> <<"a", ".", "tar">>, ext |-> <<".", "gz">>]
      [] OTHER -> [name |-> <<"report", "_", "1">>, ext |-> <<".", "csv">>]

\* <name>_<k><ext> for k from 1 to 9.
Numbered(base, k) ==
    NameAndExt(base).name \o <<"_", DecimalDigits[k + 1]>> \o NameAndExt(base).ext

\* The name returned is free in the directory: the base name when that is
\* free, otherwise <name>_<k><ext> for the least k >= 1 that is free.
FirstFreeName ==
    uq.pc = "returned"
        => /\ uq.filename \notin uq.directory
           /\ uq.base_filename \notin uq.directory => uq.filename = uq.base_filename
           /\ uq.base_filename \in uq.directory
                 => \E k \in 1..(MaxFiles + 1) :
                       /\ uq.filename = Numbered(uq.base_filename, k)
                       /\ \A j \in 1..(k - 1) :
                             Numbered(uq.base_filename, j) \in uq.directory

\* C18 (SpecUnique): get_unique_filename terminates on every directory,
\* returns a name that is free in the directory (the base name when it is
\* free, otherwise <name>_<k><ext> for the least free k >= 1, the extension
\* kept), and leaves the directory as it is.
C18_UniqueFilename ==
    /\ <>(uq.pc = "returned")
    /\ []FirstFreeName
    /\ [][uq'.directory = uq.directory /\ files' = files]_vars

\* C18 witness: the base name and the names numbered 1 and 2 exist, and
\* the name numbered 3 is returned with its extension.
C18_Witness ==
    /\ uq.pc = "returned"
    /\ uq.base_filename = <<"a", ".", "tar", ".", "gz">>
    /\ uq.filename = <<"a", ".", "tar", "_", "3", ".", "gz">>
    /\ uq.counter = 4

====
